---- MODULE Spec2Model ----
(***************************************************************************)
(* The download-and-convert pipeline of the arXiv MCP server               *)
(* (src/src/arxiv_mcp_server/tools/download.py).                           *)
(*                                                                         *)
(* handle_download is a coroutine on a single event loop: the code between *)
(* two awaits runs atomically with respect to other requests.  Its only    *)
(* suspension point is `await client.get(pdf_url)`.  The conversion runs   *)
(* in a worker thread (asyncio.to_thread), so each of its statements       *)
(* interleaves with the requests the event loop serves.                    *)
(***************************************************************************)
EXTENDS Integers, Sequences, FiniteSets, TLC

VARIABLES
    conversion_statuses,  \* the tracker dict: paper_id -> ConversionStatus
    pdf,                  \* raw artifact <id>.pdf on disk: "none" | "partial" | "full"
    md,                   \* final artifact <id>.md on disk: "none" | "partial" | "full"
    awaiting,             \* per id: coroutines suspended in `await client.get`
    tpc,                  \* per id: position of the conversion thread
    now,                  \* the value datetime.now() returns
    resp,                 \* the payload returned by the latest answered call (at most one)
    created,              \* history: ConversionStatus objects constructed per id
    fetchCalls,           \* history: client.get calls issued per id
    tasks,                \* history: conversion tasks started per id
    extractCalls,         \* history: pymupdf4llm.to_markdown calls per id
    fetchResult,          \* history: outcome of the latest fetch per id
    extractResult,        \* history: outcome of the latest conversion per id
    read_result,          \* the payload returned by the latest handle_read_paper call
    arguments,            \* handle_search: the arguments of the call
    upstream,             \* handle_search: the pages the search API holds
    search_pc,            \* handle_search: position of the coroutine
    page,                 \* handle_search: next page to request
    all_results,          \* handle_search: raw results accumulated so far
    api_calls,            \* history: the page numbers requested, in order
    search_result,        \* the text handle_search returned (at most one)
    cleared               \* history: what the last process restart found and dropped

\* The state of the read and search tools and the memory of the last restart,
\* which handle_download and convert_pdf_to_markdown never touch.
readVars == <<read_result>>
searchVars == <<arguments, upstream, search_pc, page, all_results, api_calls,
                search_result>>
restartVars == <<cleared>>
otherTools == <<readVars, searchVars, restartVars>>

vars == <<conversion_statuses, pdf, md, awaiting, tpc, now, resp,
          created, fetchCalls, tasks, extractCalls, fetchResult, extractResult,
          otherTools>>

\* The paper identifiers requests are made for.
Ids == {"1111.11111", "9999.00000"}

\* Largest clock value; the clock stops advancing there.
MaxClock == 2

\* Cap of the history counters and of the suspended coroutines per id.
MaxCalls == 2

Bump(c) == IF c < MaxCalls THEN c + 1 ELSE c

-----------------------------------------------------------------------------
(* Data *)

ConversionStatus(paper_id, status, started_at) ==
    [paper_id |-> paper_id, status |-> status, started_at |-> started_at,
     completed_at |-> {}, error |-> {}]

get_paper_path(paper_id, suffix) == <<paper_id, suffix>>

\* Path.exists(): a file that was opened for writing exists, written or not.
exists(path) ==
    IF path[2] = ".md" THEN md[path[1]] # "none" ELSE pdf[path[1]] # "none"

Payload(status, message, uri, started_at, completed_at, error) ==
    [status |-> status, message |-> message, resource_uri |-> uri,
     started_at |-> started_at, completed_at |-> completed_at, error |-> error]

\* What a caller receives, with what the handler saw when it answered.
Response(paper_id, check_status, payload, starter, fetch, raised) ==
    [paper_id |-> paper_id, check_status |-> check_status, payload |-> payload,
     sawRecord |-> IF paper_id \in DOMAIN conversion_statuses
                   THEN conversion_statuses[paper_id].status ELSE "absent",
     sawMd |-> md[paper_id],
     sawThread |-> tpc[paper_id],
     starter |-> starter,
     fetch |-> fetch,
     raised |-> raised]

\* Mutant: storing a record rebuilds the tracker, dropping the other records.
PutAlone(paper_id, rec) == [j \in {paper_id} |-> rec]

\* conversion_statuses[paper_id] = rec
Put(paper_id, rec) ==
    [j \in DOMAIN conversion_statuses \cup {paper_id} |->
        IF j = paper_id THEN rec ELSE conversion_statuses[j]]

\* The process has not been restarted: nothing was found, nothing dropped.
NeverCleared == cleared = [happened |-> FALSE, stored |-> {}, failed |-> {}]

\* No search has been called.
SearchIdle ==
    /\ arguments = [max_results |-> 0, categories |-> <<>>,
                    date_from |-> "absent", date_to |-> "absent"]
    /\ upstream = [pages |-> <<>>, endless |-> FALSE]
    /\ search_pc = "idle"
    /\ page = 1
    /\ all_results = <<>>
    /\ api_calls = <<>>
    /\ search_result = {}

-----------------------------------------------------------------------------
(* Initial state: an empty tracker over a storage directory that may hold  *)
(* artifacts of earlier runs.                                              *)

Init ==
    /\ conversion_statuses = [j \in {} |-> ConversionStatus(j, "downloading", 0)]
    /\ pdf \in [Ids -> {"none", "full"}]
    /\ md \in [Ids -> {"none", "full"}]
    /\ awaiting = [i \in Ids |-> 0]
    /\ tpc = [i \in Ids |-> "none"]
    /\ now = 0
    /\ resp = {}
    /\ created = [i \in Ids |-> 0]
    /\ fetchCalls = [i \in Ids |-> 0]
    /\ tasks = [i \in Ids |-> 0]
    /\ extractCalls = [i \in Ids |-> 0]
    /\ fetchResult = [i \in Ids |-> "none"]
    /\ extractResult = [i \in Ids |-> "none"]
    /\ read_result = {}
    /\ SearchIdle
    /\ NeverCleared

\* Time passes between two reads of datetime.now().
Tick ==
    /\ now < MaxClock
    /\ now' = now + 1
    /\ UNCHANGED <<conversion_statuses, pdf, md, awaiting, tpc, resp, created,
                   fetchCalls, tasks, extractCalls, fetchResult, extractResult, otherTools>>

-----------------------------------------------------------------------------
(* handle_download, check_status = True *)

\* Mutant: only the tracker is consulted, the disk is not.
CheckStatusPayloadTrackerOnly(paper_id) ==
    IF paper_id \notin DOMAIN conversion_statuses
    THEN Payload("unknown", <<"No download or conversion in progress">>,
                 {}, {}, {}, {})
    ELSE LET status == conversion_statuses[paper_id]
         IN Payload(status.status, <<"Paper conversion", status.status>>, {},
                    {status.started_at}, status.completed_at, status.error)

\* Mutant: the disk is looked at before the tracker.
CheckStatusPayloadDiskFirst(paper_id) ==
    IF exists(get_paper_path(paper_id, ".md"))
    THEN Payload("success", <<"Paper is ready">>,
                 {get_paper_path(paper_id, ".md")}, {}, {}, {})
    ELSE IF paper_id \notin DOMAIN conversion_statuses
         THEN Payload("unknown", <<"No download or conversion in progress">>,
                      {}, {}, {}, {})
         ELSE LET status == conversion_statuses[paper_id]
              IN Payload(status.status, <<"Paper conversion", status.status>>, {},
                         {status.started_at}, status.completed_at, status.error)

CheckStatusPayload(paper_id) ==
    IF paper_id \notin DOMAIN conversion_statuses
    THEN IF exists(get_paper_path(paper_id, ".md"))
         THEN Payload("success", <<"Paper is ready">>,
                      {get_paper_path(paper_id, ".md")}, {}, {}, {})
         ELSE Payload("unknown", <<"No download or conversion in progress">>,
                      {}, {}, {}, {})
    ELSE LET status == conversion_statuses[paper_id]
         IN Payload(status.status, <<"Paper conversion", status.status>>, {},
                    {status.started_at}, status.completed_at, status.error)

\* Mutant: a status check of an unknown paper starts its download.
CheckStatusStartsWork(paper_id) ==
    /\ resp' = {Response(paper_id, TRUE, CheckStatusPayload(paper_id), FALSE,
                         fetchResult[paper_id], FALSE)}
    /\ IF paper_id \notin DOMAIN conversion_statuses
          /\ ~exists(get_paper_path(paper_id, ".md"))
          /\ awaiting[paper_id] < MaxCalls
       THEN /\ conversion_statuses' =
                   Put(paper_id, ConversionStatus(paper_id, "downloading", now))
            /\ created' = [created EXCEPT ![paper_id] = Bump(@)]
            /\ fetchCalls' = [fetchCalls EXCEPT ![paper_id] = Bump(@)]
            /\ awaiting' = [awaiting EXCEPT ![paper_id] = @ + 1]
            /\ fetchResult' = [fetchResult EXCEPT ![paper_id] = "pending"]
       ELSE UNCHANGED <<conversion_statuses, created, fetchCalls, awaiting, fetchResult>>
    /\ UNCHANGED <<pdf, md, tpc, now, tasks, extractCalls, extractResult, otherTools>>

CheckStatus(paper_id) ==
    /\ resp' = {Response(paper_id, TRUE, CheckStatusPayload(paper_id), FALSE,
                       fetchResult[paper_id], FALSE)}
    /\ UNCHANGED <<conversion_statuses, pdf, md, awaiting, tpc, now, created,
                   fetchCalls, tasks, extractCalls, fetchResult, extractResult, otherTools>>

-----------------------------------------------------------------------------
(* handle_download, check_status = False, up to `await client.get` *)

\* Mutant: the disk is consulted only for papers the tracker knows.
AlreadyConvertedIfTracked(paper_id) ==
    /\ paper_id \in DOMAIN conversion_statuses
    /\ exists(get_paper_path(paper_id, ".md"))

AlreadyConverted(paper_id) == exists(get_paper_path(paper_id, ".md"))

\* Mutant: the tracker is never consulted before a job is started.
InProgressNever(paper_id) == FALSE

\* Mutant: a failed record does not count as a job in progress (retry on failure).
InProgressUnlessFailed(paper_id) ==
    /\ paper_id \in DOMAIN conversion_statuses
    /\ conversion_statuses[paper_id].status # "error"

InProgress(paper_id) == paper_id \in DOMAIN conversion_statuses

AlreadyAvailablePayload(paper_id) ==
    Payload("success", <<"Paper already available">>,
            {get_paper_path(paper_id, ".md")}, {}, {}, {})

\* Mutant: the in-progress answer carries a resource_uri.
InProgressPayloadWithUri(paper_id) ==
    LET status == conversion_statuses[paper_id]
    IN Payload(status.status, <<"Paper conversion", status.status>>,
               {get_paper_path(paper_id, ".md")}, {status.started_at}, {}, {})

InProgressPayload(paper_id) ==
    LET status == conversion_statuses[paper_id]
    IN Payload(status.status, <<"Paper conversion", status.status>>, {},
               {status.started_at}, {}, {})

\* Mutant: the request is acknowledged as soon as the record exists, the fetch
\* being left to run in the background.
StartDownloadAcknowledged(paper_id) ==
    /\ awaiting[paper_id] < MaxCalls
    /\ conversion_statuses' =
           Put(paper_id, ConversionStatus(paper_id, "downloading", now))
    /\ created' = [created EXCEPT ![paper_id] = Bump(@)]
    /\ fetchCalls' = [fetchCalls EXCEPT ![paper_id] = Bump(@)]
    /\ awaiting' = [awaiting EXCEPT ![paper_id] = @ + 1]
    /\ fetchResult' = [fetchResult EXCEPT ![paper_id] = "pending"]
    /\ resp' = {Response(paper_id, FALSE,
                         Payload("downloading", <<"Paper conversion", "downloading">>,
                                 {}, {now}, {}, {}),
                         TRUE, "pending", FALSE)}
    /\ UNCHANGED <<pdf, md, tpc, now, tasks, extractCalls, extractResult, otherTools>>

\* Lines 136-147: the record is created and the GET is issued; the coroutine
\* suspends without having answered.
StartDownload(paper_id) ==
    /\ awaiting[paper_id] < MaxCalls
    /\ conversion_statuses' =
           Put(paper_id, ConversionStatus(paper_id, "downloading", now))
    /\ created' = [created EXCEPT ![paper_id] = Bump(@)]
    /\ fetchCalls' = [fetchCalls EXCEPT ![paper_id] = Bump(@)]
    /\ awaiting' = [awaiting EXCEPT ![paper_id] = @ + 1]
    /\ fetchResult' = [fetchResult EXCEPT ![paper_id] = "pending"]
    /\ UNCHANGED <<pdf, md, tpc, now, resp, tasks, extractCalls, extractResult, otherTools>>

Answer(paper_id, payload) ==
    /\ resp' = {Response(paper_id, FALSE, payload, FALSE, fetchResult[paper_id], FALSE)}
    /\ UNCHANGED <<conversion_statuses, pdf, md, awaiting, tpc, now, created,
                   fetchCalls, tasks, extractCalls, fetchResult, extractResult, otherTools>>

Download(paper_id) ==
    IF AlreadyConverted(paper_id)
    THEN Answer(paper_id, AlreadyAvailablePayload(paper_id))
    ELSE IF InProgress(paper_id)
         THEN Answer(paper_id, InProgressPayload(paper_id))
         ELSE StartDownload(paper_id)

-----------------------------------------------------------------------------
(* handle_download from the return of `await client.get` to its return      *)

FetchOutcomes ==
    {"ok", "not_found", "http_error", "transport_error", "open_error", "write_error"}

ConversionStartedPayload(paper_id) ==
    Payload("converting", <<"Paper downloaded, conversion started">>, {},
            {conversion_statuses[paper_id].started_at}, {}, {})

\* Lines 172-197: the except clauses of handle_download.
ErrorPayload(paper_id, outcome) ==
    IF outcome = "not_found"
    THEN Payload("error", <<"Paper not found on arXiv", paper_id>>, {}, {}, {}, {})
    ELSE Payload("error", <<"Error", outcome>>, {}, {}, {}, {})

\* Mutant: the record is not advanced to "converting" before the task starts.
DownloadSucceededNoAdvance(paper_id) ==
    /\ pdf' = [pdf EXCEPT ![paper_id] = "full"]
    /\ UNCHANGED conversion_statuses
    /\ tpc' = [tpc EXCEPT ![paper_id] = "to_markdown"]
    /\ tasks' = [tasks EXCEPT ![paper_id] = Bump(@)]
    /\ resp' = {Response(paper_id, FALSE, ConversionStartedPayload(paper_id),
                         TRUE, "ok", FALSE)}

\* Mutant: the conversion is awaited inside the request and its result reported.
DownloadSucceededAwaitsConversion(paper_id) ==
    /\ pdf' = [pdf EXCEPT ![paper_id] = "full"]
    /\ conversion_statuses' =
           [conversion_statuses EXCEPT ![paper_id].status = "success",
                                       ![paper_id].completed_at = {now}]
    /\ tpc' = [tpc EXCEPT ![paper_id] = "done"]
    /\ tasks' = [tasks EXCEPT ![paper_id] = Bump(@)]
    /\ resp' = {Response(paper_id, FALSE,
                         Payload("success", <<"Paper conversion", "success">>, {},
                                 {conversion_statuses[paper_id].started_at}, {now}, {}),
                         TRUE, "ok", FALSE)}

\* Mutant: the record is advanced to "converting" and the task started while
\* the PDF is still to be written.
DownloadSucceededBeforeWrite(paper_id) ==
    /\ UNCHANGED pdf
    /\ conversion_statuses' =
           [conversion_statuses EXCEPT ![paper_id].status = "converting"]
    /\ tpc' = [tpc EXCEPT ![paper_id] = "to_markdown"]
    /\ tasks' = [tasks EXCEPT ![paper_id] = Bump(@)]
    /\ resp' = {Response(paper_id, FALSE, ConversionStartedPayload(paper_id),
                         TRUE, "ok", FALSE)}

\* Lines 148-170: the GET succeeded with a 2xx answer and the PDF was written.
DownloadSucceeded(paper_id) ==
    /\ pdf' = [pdf EXCEPT ![paper_id] = "full"]
    /\ conversion_statuses' =
           [conversion_statuses EXCEPT ![paper_id].status = "converting"]
    /\ tpc' = [tpc EXCEPT ![paper_id] = "to_markdown"]
    /\ tasks' = [tasks EXCEPT ![paper_id] = Bump(@)]
    /\ resp' = {Response(paper_id, FALSE, ConversionStartedPayload(paper_id),
                         TRUE, "ok", FALSE)}

\* Mutant: the body of the answer is written to the PDF before the status of
\* the answer is checked.
DownloadFailedAfterWrite(paper_id, outcome) ==
    /\ pdf' = [pdf EXCEPT ![paper_id] =
                   IF outcome \in {"not_found", "http_error"} THEN "full"
                   ELSE IF outcome = "write_error" THEN "partial" ELSE @]
    /\ resp' = {Response(paper_id, FALSE, ErrorPayload(paper_id, outcome),
                         TRUE, outcome, FALSE)}
    /\ UNCHANGED <<conversion_statuses, tpc, tasks>>

\* Lines 147-151 raising, then lines 172-197: client.get raises, or
\* raise_for_status raises, or open/write of the PDF raises.  The except
\* clauses build a payload and touch nothing else.
DownloadFailed(paper_id, outcome) ==
    /\ pdf' = [pdf EXCEPT ![paper_id] =
                   IF outcome = "write_error" THEN "partial" ELSE @]
    /\ resp' = {Response(paper_id, FALSE, ErrorPayload(paper_id, outcome),
                         TRUE, outcome, FALSE)}
    /\ UNCHANGED <<conversion_statuses, tpc, tasks>>

ResumeDownload(paper_id, outcome) ==
    /\ awaiting[paper_id] > 0
    /\ awaiting' = [awaiting EXCEPT ![paper_id] = @ - 1]
    /\ fetchResult' = [fetchResult EXCEPT ![paper_id] = outcome]
    /\ IF outcome = "ok"
       THEN DownloadSucceeded(paper_id)
       ELSE DownloadFailed(paper_id, outcome)
    /\ UNCHANGED <<md, now, created, fetchCalls, extractCalls, extractResult, otherTools>>

-----------------------------------------------------------------------------
(* convert_pdf_to_markdown, one action per statement of the worker thread   *)

\* Mutant: the records share one status object, a write reaches all of them.
SetFieldOfAll(paper_id, field, value) ==
    [j \in DOMAIN conversion_statuses |->
        [conversion_statuses[j] EXCEPT ![field] = value]]

\* status = conversion_statuses.get(paper_id); if status: status.<field> = value
SetField(paper_id, field, value) ==
    IF paper_id \in DOMAIN conversion_statuses
    THEN [conversion_statuses EXCEPT ![paper_id][field] = value]
    ELSE conversion_statuses

ThreadFrame ==
    UNCHANGED <<pdf, awaiting, now, resp, created, fetchCalls, tasks, fetchResult,
                otherTools>>

\* Line 43.
ToMarkdown(paper_id) ==
    /\ tpc[paper_id] = "to_markdown"
    /\ extractCalls' = [extractCalls EXCEPT ![paper_id] = Bump(@)]
    /\ \E ok \in BOOLEAN :
          /\ tpc' = [tpc EXCEPT ![paper_id] = IF ok THEN "open" ELSE "except"]
          /\ extractResult' = [extractResult EXCEPT ![paper_id] =
                                   IF ok THEN "running" ELSE "extract_error"]
    /\ UNCHANGED <<conversion_statuses, md>>
    /\ ThreadFrame

\* Line 46: open(md_path, "w") creates or truncates the file.
OpenMd(paper_id) ==
    /\ tpc[paper_id] = "open"
    /\ \E ok \in BOOLEAN :
          /\ tpc' = [tpc EXCEPT ![paper_id] = IF ok THEN "write" ELSE "except"]
          /\ md' = [md EXCEPT ![paper_id] = IF ok THEN "partial" ELSE @]
          /\ extractResult' = [extractResult EXCEPT ![paper_id] =
                                   IF ok THEN @ ELSE "open_error"]
    /\ UNCHANGED <<conversion_statuses, extractCalls>>
    /\ ThreadFrame

\* Line 47 and the end of the with block: the text reaches the file.
WriteMd(paper_id) ==
    /\ tpc[paper_id] = "write"
    /\ \E ok \in BOOLEAN :
          /\ tpc' = [tpc EXCEPT ![paper_id] = IF ok THEN "set_success" ELSE "except"]
          /\ md' = [md EXCEPT ![paper_id] = IF ok THEN "full" ELSE @]
          /\ extractResult' = [extractResult EXCEPT ![paper_id] =
                                   IF ok THEN "ok" ELSE "write_error"]
    /\ UNCHANGED <<conversion_statuses, extractCalls>>
    /\ ThreadFrame

\* Lines 49-51.
SetSuccess(paper_id) ==
    /\ tpc[paper_id] = "set_success"
    /\ conversion_statuses' = SetField(paper_id, "status", "success")
    /\ tpc' = [tpc EXCEPT ![paper_id] = "set_completed"]
    /\ UNCHANGED <<md, extractCalls, extractResult>>
    /\ ThreadFrame

\* Mutant: the statement after the status assignment raises, so the except
\* clause runs on a record that is already in success.
SetCompletedRaises(paper_id) ==
    /\ tpc[paper_id] = "set_completed"
    /\ UNCHANGED conversion_statuses
    /\ tpc' = [tpc EXCEPT ![paper_id] = "except"]
    /\ UNCHANGED <<md, extractCalls, extractResult>>
    /\ ThreadFrame

\* Line 52.
SetCompleted(paper_id) ==
    /\ tpc[paper_id] = "set_completed"
    /\ conversion_statuses' = SetField(paper_id, "completed_at", {now})
    /\ tpc' = [tpc EXCEPT ![paper_id] = "done"]
    /\ UNCHANGED <<md, extractCalls, extractResult>>
    /\ ThreadFrame

\* Lines 57-61.
ExceptStatus(paper_id) ==
    /\ tpc[paper_id] = "except"
    /\ conversion_statuses' = SetField(paper_id, "status", "error")
    /\ tpc' = [tpc EXCEPT ![paper_id] = "except_completed"]
    /\ UNCHANGED <<md, extractCalls, extractResult>>
    /\ ThreadFrame

\* Line 62.
ExceptCompleted(paper_id) ==
    /\ tpc[paper_id] = "except_completed"
    /\ conversion_statuses' = SetField(paper_id, "completed_at", {now})
    /\ tpc' = [tpc EXCEPT ![paper_id] = "except_error"]
    /\ UNCHANGED <<md, extractCalls, extractResult>>
    /\ ThreadFrame

\* Line 63.
ExceptError(paper_id) ==
    /\ tpc[paper_id] = "except_error"
    /\ conversion_statuses' = SetField(paper_id, "error", {extractResult[paper_id]})
    /\ tpc' = [tpc EXCEPT ![paper_id] = "done"]
    /\ UNCHANGED <<md, extractCalls, extractResult>>
    /\ ThreadFrame

-----------------------------------------------------------------------------

Next ==
    \/ Tick
    \/ \E i \in Ids : CheckStatus(i)
    \/ \E i \in Ids : Download(i)
    \/ \E i \in Ids, o \in FetchOutcomes : ResumeDownload(i, o)
    \/ \E i \in Ids : ToMarkdown(i)
    \/ \E i \in Ids : OpenMd(i)
    \/ \E i \in Ids : WriteMd(i)
    \/ \E i \in Ids : SetSuccess(i)
    \/ \E i \in Ids : SetCompleted(i)
    \/ \E i \in Ids : ExceptStatus(i)
    \/ \E i \in Ids : ExceptCompleted(i)
    \/ \E i \in Ids : ExceptError(i)

Spec == Init /\ [][Next]_vars

-----------------------------------------------------------------------------
(* handle_read_paper (tools/read_paper.py)                                  *)

\* Mutant: the stored papers are taken from the tracker, not from the disk.
list_papers_tracked ==
    {i \in DOMAIN conversion_statuses : conversion_statuses[i].status = "success"}

\* The stems of the *.md files of the storage directory.
list_papers == {i \in Ids : md[i] # "none"}

\* read_ok: whether Path.read_text returns (the stored text) or raises.
ReadPaperPayload(paper_id, read_ok) ==
    IF paper_id \notin list_papers
    THEN [status |-> "error", paper_id |-> {}, content |-> {},
          message |-> <<"Paper not found in storage", paper_id>>]
    ELSE IF read_ok
         THEN [status |-> "success", paper_id |-> {paper_id},
               content |-> {md[paper_id]}, message |-> <<>>]
         ELSE [status |-> "error", paper_id |-> {}, content |-> {},
               message |-> <<"Error reading paper">>]

ReadPaper(paper_id) ==
    /\ \E read_ok \in BOOLEAN :
          read_result' = {[requested |-> paper_id, sawMd |-> md[paper_id],
                           read_ok |-> read_ok,
                           payload |-> ReadPaperPayload(paper_id, read_ok)]}
    /\ UNCHANGED <<conversion_statuses, pdf, md, awaiting, tpc, now, resp, created,
                   fetchCalls, tasks, extractCalls, fetchResult, extractResult,
                   searchVars, restartVars>>

\* Reads interleaved with everything that writes or reads the storage
\* directory: the full requests and the conversion threads.  handle_read_paper
\* reads neither the clock nor the tracker, so Tick and CheckStatus are left out.
NextRead ==
    \/ \E i \in Ids : ReadPaper(i)
    \/ \E i \in Ids : Download(i)
    \/ \E i \in Ids, o \in FetchOutcomes : ResumeDownload(i, o)
    \/ \E i \in Ids : ToMarkdown(i)
    \/ \E i \in Ids : OpenMd(i)
    \/ \E i \in Ids : WriteMd(i)
    \/ \E i \in Ids : SetSuccess(i)
    \/ \E i \in Ids : SetCompleted(i)
    \/ \E i \in Ids : ExceptStatus(i)
    \/ \E i \in Ids : ExceptCompleted(i)
    \/ \E i \in Ids : ExceptError(i)

SpecRead == Init /\ [][NextRead]_vars

-----------------------------------------------------------------------------
(* handle_search (tools/search.py)                                          *)
(* The search API is what the tests make it: GET with a page number answers *)
(* a list of papers, an error status, or something that is not a list.      *)

\* settings.MAX_RESULTS, the cap of max_results.
MAX_RESULTS == 4

\* Line 140: a page shorter than this is taken for the last one.
SmallPage == 5

\* The API holds MaxPages pages of at most MaxPageSize papers each.
MaxPages == 2
MaxPageSize == 2

\* What a raw result can be: its categories and its date.
PaperKinds ==
    {[categories |-> <<"cs.AI">>, date |-> 2],
     [categories |-> <<"cs.LG">>, date |-> 1]}

PageContents == UNION {[1..n -> PaperKinds] : n \in 0..MaxPageSize}

DateArgs == {"absent", "recent", "invalid"}

\* dateutil's parser.parse on the date strings of the arguments.
ParseDate(date_str) == IF date_str = "recent" THEN {2} ELSE {}

Min(a, b) == IF a < b THEN a ELSE b

\* Line 88.
max_results == Min(arguments.max_results, MAX_RESULTS)

\* The list the API answers for a page number.  Past its last page an API
\* answers an empty list, or (endless) goes on answering its last page.
PageOf(p) ==
    LET n == Len(upstream.pages)
        kinds == IF p <= n THEN upstream.pages[p]
                 ELSE IF upstream.endless /\ n > 0 THEN upstream.pages[n]
                 ELSE <<>>
    IN [k \in 1..Len(kinds) |->
           [id |-> <<p, k>>, categories |-> kinds[k].categories,
            date |-> kinds[k].date]]

\* Lines 30-42.
is_within_date_range(date, start, end) ==
    IF \E t \in start : date < t THEN FALSE
    ELSE IF \E t \in end : date > t THEN FALSE
    ELSE TRUE

\* Lines 149-152: the category test of one raw result.
CategoryMatches(paper_data, categories_filter) ==
    \/ categories_filter = <<>>
    \/ \E c \in DOMAIN categories_filter, k \in DOMAIN paper_data.categories :
          categories_filter[c] = paper_data.categories[k]

\* Lines 45-78.
process_paper(paper) ==
    [id |-> paper.id, categories |-> paper.categories, published |-> paper.date,
     resource_uri |-> <<"arxiv://", paper.id>>]

\* Mutant: the results are filtered but not cut at max_results.
RECURSIVE ProcessResultsUnlimited(_, _, _)
ProcessResultsUnlimited(raw, k, results) ==
    IF k > Len(raw) THEN results
    ELSE IF ~CategoryMatches(raw[k], arguments.categories)
         THEN ProcessResultsUnlimited(raw, k + 1, results)
         ELSE IF ~is_within_date_range(raw[k].date,
                                       ParseDate(arguments.date_from),
                                       ParseDate(arguments.date_to))
              THEN ProcessResultsUnlimited(raw, k + 1, results)
              ELSE ProcessResultsUnlimited(raw, k + 1,
                                           Append(results, process_paper(raw[k])))

\* Lines 143-174: the for loop over all_results, from its k-th element on.
RECURSIVE ProcessResults(_, _, _)
ProcessResults(raw, k, results) ==
    IF k > Len(raw) THEN results
    ELSE IF ~CategoryMatches(raw[k], arguments.categories)
         THEN ProcessResults(raw, k + 1, results)
         ELSE IF ~is_within_date_range(raw[k].date,
                                       ParseDate(arguments.date_from),
                                       ParseDate(arguments.date_to))
              THEN ProcessResults(raw, k + 1, results)
              ELSE LET appended == Append(results, process_paper(raw[k]))
                   IN IF Len(appended) >= max_results
                      THEN appended
                      ELSE ProcessResults(raw, k + 1, appended)

SearchText(status, message, papers) ==
    [status |-> status, message |-> message, total_results |-> Len(papers),
     papers |-> papers]

\* A call of handle_search with some arguments against some API, the download
\* tool being idle over an empty storage directory.
InitSearch ==
    /\ conversion_statuses = [j \in {} |-> ConversionStatus(j, "downloading", 0)]
    /\ pdf = [i \in Ids |-> "none"]
    /\ md = [i \in Ids |-> "none"]
    /\ awaiting = [i \in Ids |-> 0]
    /\ tpc = [i \in Ids |-> "none"]
    /\ now = 0
    /\ resp = {}
    /\ created = [i \in Ids |-> 0]
    /\ fetchCalls = [i \in Ids |-> 0]
    /\ tasks = [i \in Ids |-> 0]
    /\ extractCalls = [i \in Ids |-> 0]
    /\ fetchResult = [i \in Ids |-> "none"]
    /\ extractResult = [i \in Ids |-> "none"]
    /\ read_result = {}
    /\ arguments \in [max_results : 0..(MAX_RESULTS + 1),
                      categories : {<<>>, <<"cs.AI">>},
                      date_from : DateArgs,
                      date_to : {"absent"}]
    /\ upstream \in [pages : [1..MaxPages -> PageContents], endless : BOOLEAN]
    /\ search_pc = "called"
    /\ page = 1
    /\ all_results = <<>>
    /\ api_calls = <<>>
    /\ search_result = {}
    /\ NeverCleared

SearchFrame ==
    UNCHANGED <<conversion_statuses, pdf, md, awaiting, tpc, now, resp, created,
                fetchCalls, tasks, extractCalls, fetchResult, extractResult,
                readVars, restartVars, arguments, upstream>>

\* Lines 87-112: the arguments are read and the date filters parsed.
SearchCalled ==
    /\ search_pc = "called"
    /\ IF "invalid" \in {arguments.date_from, arguments.date_to}
       THEN /\ search_result' = {SearchText("error", <<"Invalid date format">>, <<>>)}
            /\ search_pc' = "done"
       ELSE /\ search_pc' = "loop"
            /\ UNCHANGED search_result
    /\ UNCHANGED <<page, all_results, api_calls>>
    /\ SearchFrame

\* Mutant: the loop goes on while the results do not exceed max_results.
ContinuePagingInclusive(count) == count <= max_results

\* Line 115: the condition of the while loop.
ContinuePaging(count) == count < max_results

\* Lines 115-141: one evaluation of the loop condition and, when it holds,
\* one request and what the loop does with its answer.
SearchPage ==
    /\ search_pc = "loop"
    /\ IF ~ContinuePaging(Len(all_results))
       THEN /\ search_pc' = "process"
            /\ UNCHANGED <<page, all_results, api_calls, search_result>>
       ELSE /\ api_calls' = Append(api_calls, page)
            /\ \E answer \in {"list", "http_error", "not_list"} :
                  IF answer = "http_error"
                  THEN /\ search_result' =
                              {SearchText("error", <<"HTTP request failed">>, <<>>)}
                       /\ search_pc' = "done"
                       /\ UNCHANGED <<page, all_results>>
                  ELSE IF answer = "not_list"
                  THEN /\ search_result' =
                              {SearchText("error", <<"Unexpected response format">>, <<>>)}
                       /\ search_pc' = "done"
                       /\ UNCHANGED <<page, all_results>>
                  ELSE LET raw_results == PageOf(page)
                       IN IF raw_results = <<>>
                          THEN /\ search_pc' = "process"
                               /\ UNCHANGED <<page, all_results, search_result>>
                          ELSE /\ all_results' = all_results \o raw_results
                               /\ page' = page + 1
                               /\ search_pc' =
                                      IF /\ Len(raw_results) < SmallPage
                                         /\ Len(all_results') >= max_results
                                      THEN "process" ELSE "loop"
                               /\ UNCHANGED search_result
    /\ SearchFrame

\* Lines 143-180: the raw results are filtered, processed and returned.
SearchProcess ==
    /\ search_pc = "process"
    /\ search_result' = {SearchText("ok", <<>>, ProcessResults(all_results, 1, <<>>))}
    /\ search_pc' = "done"
    /\ UNCHANGED <<page, all_results, api_calls>>
    /\ SearchFrame

NextSearch ==
    \/ SearchCalled
    \/ SearchPage
    \/ SearchProcess

SpecSearch == InitSearch /\ [][NextSearch]_vars

-----------------------------------------------------------------------------
(* Process restart                                                          *)
(* conversion_statuses is a module-level dict (lines 17-18): a new process  *)
(* starts with it empty, without the coroutines and threads of the old one, *)
(* over the storage directory as the old process left it.                   *)

Restart ==
    /\ conversion_statuses' = [j \in {} |-> ConversionStatus(j, "downloading", 0)]
    /\ awaiting' = [i \in Ids |-> 0]
    /\ tpc' = [i \in Ids |-> "none"]
    /\ resp' = {}
    /\ created' = [i \in Ids |-> 0]
    /\ fetchCalls' = [i \in Ids |-> 0]
    /\ tasks' = [i \in Ids |-> 0]
    /\ extractCalls' = [i \in Ids |-> 0]
    /\ fetchResult' = [i \in Ids |-> "none"]
    /\ extractResult' = [i \in Ids |-> "none"]
    /\ cleared' = [happened |-> TRUE,
                   stored |-> {i \in Ids : exists(get_paper_path(i, ".md"))},
                   failed |-> {i \in DOMAIN conversion_statuses :
                                  conversion_statuses[i].status = "error"}]
    /\ UNCHANGED <<pdf, md, now, readVars, searchVars>>

\* The requests and the conversion threads, with restarts at any point.  No
\* answer depends on the value of the clock, so it is left standing.
NextRestart ==
    \/ Restart
    \/ \E i \in Ids : CheckStatus(i)
    \/ \E i \in Ids : Download(i)
    \/ \E i \in Ids, o \in FetchOutcomes : ResumeDownload(i, o)
    \/ \E i \in Ids : ToMarkdown(i)
    \/ \E i \in Ids : OpenMd(i)
    \/ \E i \in Ids : WriteMd(i)
    \/ \E i \in Ids : SetSuccess(i)
    \/ \E i \in Ids : SetCompleted(i)
    \/ \E i \in Ids : ExceptStatus(i)
    \/ \E i \in Ids : ExceptCompleted(i)
    \/ \E i \in Ids : ExceptError(i)

SpecRestart == Init /\ [][NextRestart]_vars

-----------------------------------------------------------------------------
(* Properties *)

Phase(i) ==
    IF i \in DOMAIN conversion_statuses THEN conversion_statuses[i].status ELSE "absent"

\* What no request that only answers may touch: the tracker, the artifacts,
\* the fetches, the tasks and the extractor calls.
work == <<conversion_statuses, pdf, md, awaiting, tpc, created, fetchCalls,
          tasks, extractCalls>>

NotFoundEndsFailed ==
    \A i \in Ids :
        fetchResult[i] = "not_found" =>
            /\ Phase(i) = "error"
            /\ conversion_statuses[i].error # {}
            /\ CheckStatusPayload(i).status = "error"

\* C4: a full request for an identifier whose final artifact is on disk is
\* answered "success" with the artifact's resource_uri, whatever the tracker
\* holds, and changes nothing but the answer.
CachedArtifactServed ==
    [][\A i \in Ids :
          (md[i] # "none" /\ Download(i)) =>
              /\ resp' # {}
              /\ \A r \in resp' :
                    /\ r.paper_id = i
                    /\ ~r.check_status
                    /\ r.payload.status = "success"
                    /\ r.payload.resource_uri = {get_paper_path(i, ".md")}
              /\ UNCHANGED work]_vars

\* C4 witness: a full request was answered "success" from the disk alone, the
\* tracker holding no record and nothing having been fetched or extracted.
CachedAnswerWithoutRecord ==
    \E r \in resp :
        /\ ~r.check_status
        /\ r.payload.status = "success"
        /\ r.sawRecord = "absent"
        /\ r.paper_id \notin DOMAIN conversion_statuses
        /\ fetchCalls[r.paper_id] = 0
        /\ extractCalls[r.paper_id] = 0

SuccessfulRun(i) == fetchResult[i] = "ok" /\ extractResult[i] = "ok"

\* C5: a record changes phase only along absent -> downloading -> converting
\* -> success (or converting -> error); a run whose fetch and extraction
\* succeeded never enters error; a status check reports the record's phase;
\* and when the thread of such a run has finished the record is in success
\* with completed_at >= started_at, the final artifact is fully written and a
\* full request is answered success with its resource_uri.
SuccessfulRunPhases ==
    /\ [][\A i \in Ids :
             Phase(i)' # Phase(i) =>
                 /\ <<Phase(i), Phase(i)'>> \in
                        {<<"absent", "downloading">>, <<"downloading", "converting">>,
                         <<"converting", "success">>, <<"converting", "error">>}
                 /\ SuccessfulRun(i)' => Phase(i)' # "error"]_vars
    /\ [](\A i \in Ids :
             /\ i \in DOMAIN conversion_statuses =>
                    CheckStatusPayload(i).status = Phase(i)
             /\ Phase(i) = "success" => SuccessfulRun(i) /\ md[i] = "full"
             /\ (SuccessfulRun(i) /\ tpc[i] = "done") =>
                    /\ Phase(i) = "success"
                    /\ \E t \in conversion_statuses[i].completed_at :
                           t >= conversion_statuses[i].started_at
                    /\ md[i] = "full"
                    /\ AlreadyConverted(i)
                    /\ AlreadyAvailablePayload(i).status = "success"
                    /\ AlreadyAvailablePayload(i).resource_uri =
                           {get_paper_path(i, ".md")})

\* C5 witness: after a finished successful run, a full request was answered
\* success with the resource_uri of the final artifact.
SuccessfulRunServed ==
    \E r \in resp :
        /\ ~r.check_status
        /\ r.sawRecord = "success"
        /\ r.payload.status = "success"
        /\ r.payload.resource_uri # {}
        /\ SuccessfulRun(r.paper_id)
        /\ tpc[r.paper_id] = "done"
        /\ conversion_statuses[r.paper_id].completed_at # {}

\* C6: a status check is answered with the phase of the identifier's record
\* when there is one; otherwise with "success" and the resource_uri when the
\* final artifact is on disk; otherwise with "unknown".
StatusCheckAnswer ==
    \A r \in resp :
        r.check_status =>
            /\ r.sawRecord # "absent" =>
                   /\ r.payload.status = r.sawRecord
                   /\ r.payload.resource_uri = {}
            /\ (r.sawRecord = "absent" /\ r.sawMd # "none") =>
                   /\ r.payload.status = "success"
                   /\ r.payload.resource_uri = {get_paper_path(r.paper_id, ".md")}
            /\ (r.sawRecord = "absent" /\ r.sawMd = "none") =>
                   /\ r.payload.status = "unknown"
                   /\ r.payload.resource_uri = {}

\* C6 witness: a status check was answered "converting" from the record while
\* the final artifact was already on disk.
StatusCheckPrefersRecord ==
    \E r \in resp :
        /\ r.check_status
        /\ r.sawRecord = "converting"
        /\ r.sawMd # "none"
        /\ r.payload.status = "converting"

\* C7: a status check changes neither the tracker nor an artifact, issues no
\* fetch, calls no extractor and starts no task.
StatusCheckStartsNothing ==
    [][\A i \in Ids : CheckStatus(i) => UNCHANGED work]_vars

\* C7 witness: a status check of an identifier with no record and no final
\* artifact was answered "unknown" and there is still no record and no fetch.
UnknownLeftUntouched ==
    \E r \in resp :
        /\ r.check_status
        /\ r.payload.status = "unknown"
        /\ r.paper_id \notin DOMAIN conversion_statuses
        /\ md[r.paper_id] = "none"
        /\ fetchCalls[r.paper_id] = 0
        /\ awaiting[r.paper_id] = 0

\* C8: a full request for an identifier that has a record and no final
\* artifact is answered with the record's status and changes nothing but the
\* answer, also when the record is in the error phase.
ExistingRecordNotRestarted ==
    [][\A i \in Ids :
          (md[i] = "none" /\ i \in DOMAIN conversion_statuses /\ Download(i)) =>
              /\ resp' # {}
              /\ \A r \in resp' :
                    /\ r.paper_id = i
                    /\ ~r.check_status
                    /\ ~r.starter
                    /\ r.payload.status = conversion_statuses[i].status
                    /\ r.payload.resource_uri = {}
              /\ UNCHANGED work]_vars

\* C8 witness: a full request found a failed record and no final artifact,
\* was answered "error", and the job was not started again.
FailedRecordSurfaced ==
    \E r \in resp :
        /\ ~r.check_status
        /\ ~r.starter
        /\ r.sawRecord = "error"
        /\ r.sawMd = "none"
        /\ r.payload.status = "error"
        /\ Phase(r.paper_id) = "error"
        /\ created[r.paper_id] = 1
        /\ fetchCalls[r.paper_id] = 1
        /\ awaiting[r.paper_id] = 0

\* C9 as stated: whenever a request is answered "success" with a
\* resource_uri, the final artifact it saw was written in full.
SuccessMeansFullyWritten ==
    \A r \in resp :
        (r.payload.status = "success" /\ r.payload.resource_uri # {}) =>
            r.sawMd = "full"

\* C10: every answer carries one of the five statuses, carries a resource_uri
\* only with "success", and is a payload, not an exception.
WellFormedPayload ==
    \A r \in resp :
        /\ r.payload.status \in
               {"downloading", "converting", "success", "error", "unknown"}
        /\ r.payload.resource_uri # {} => r.payload.status = "success"
        /\ ~r.raised

\* C10 witness: the write of the raw artifact failed and the caller was
\* answered with an "error" payload.
StorageFailureAnswered ==
    \E r \in resp :
        /\ r.starter
        /\ r.fetch = "write_error"
        /\ pdf[r.paper_id] = "partial"
        /\ r.payload.status = "error"
        /\ ~r.raised

\* C11: from the creation of a job to a not-found answer of its fetch, and
\* ever after, neither the raw nor the final artifact of that identifier is
\* written: every step that leaves the fetch pending or not-found leaves both
\* files of the identifier as they were.
NotFoundWritesNothing ==
    [][\A i \in Ids :
          fetchResult'[i] \in {"pending", "not_found"} =>
              /\ pdf'[i] = pdf[i]
              /\ md'[i] = md[i]
              /\ tpc'[i] = "none"
              /\ extractCalls'[i] = 0]_vars

\* C11 witness: the fetch of an identifier with no artifact ended not-found,
\* the caller was told so, and the identifier still has no artifact.
NotFoundLeftNoArtifact ==
    \E r \in resp :
        /\ r.starter
        /\ r.fetch = "not_found"
        /\ r.payload.message = <<"Paper not found on arXiv", r.paper_id>>
        /\ fetchResult[r.paper_id] = "not_found"
        /\ pdf[r.paper_id] = "none"
        /\ md[r.paper_id] = "none"

\* C12: the request that started a job is answered when the conversion task
\* has been created and has not run: the answer is "converting" or "error",
\* never "success", carries no resource_uri and no completed_at, and the step
\* that answers calls no extractor and writes no final artifact.
StarterNeverWaitsForExtraction ==
    /\ [](\A r \in resp :
             r.starter =>
                 /\ r.payload.status \in {"converting", "error"}
                 /\ r.payload.resource_uri = {}
                 /\ r.payload.completed_at = {}
                 /\ r.sawThread = "none")
    /\ [][\A i \in Ids :
             ResumeDownload(i, "ok") =>
                 /\ tpc'[i] = "to_markdown"
                 /\ extractCalls'[i] = 0
                 /\ md'[i] = md[i]
                 /\ Phase(i)' = "converting"]_vars

\* C12 witness: the starting request was answered "converting"; the job has
\* since succeeded, which the caller can learn only from another request.
CompletionAfterStarterAnswer ==
    \E r \in resp :
        /\ r.starter
        /\ r.payload.status = "converting"
        /\ Phase(r.paper_id) = "success"
        /\ tpc[r.paper_id] = "done"
        /\ md[r.paper_id] = "full"

RecordOf(i) ==
    IF i \in DOMAIN conversion_statuses THEN {conversion_statuses[i]} ELSE {}

StepOf(i) ==
    \/ CheckStatus(i)
    \/ Download(i)
    \/ \E o \in FetchOutcomes : ResumeDownload(i, o)
    \/ ToMarkdown(i) \/ OpenMd(i) \/ WriteMd(i)
    \/ SetSuccess(i) \/ SetCompleted(i)
    \/ ExceptStatus(i) \/ ExceptCompleted(i) \/ ExceptError(i)

\* C13: a request or a job step for one identifier leaves the record, the
\* artifacts, the pending fetches and the thread of every other identifier
\* as they were; and a full request for an identifier with no record and no
\* final artifact starts its job whatever state the other identifiers are in.
JobsAreIndependent ==
    [][\A a \in Ids :
          /\ StepOf(a) =>
                \A b \in Ids \ {a} :
                    /\ RecordOf(b)' = RecordOf(b)
                    /\ pdf'[b] = pdf[b]
                    /\ md'[b] = md[b]
                    /\ awaiting'[b] = awaiting[b]
                    /\ tpc'[b] = tpc[b]
          /\ (Download(a) /\ md[a] = "none" /\ a \notin DOMAIN conversion_statuses) =>
                /\ Phase(a)' = "downloading"
                /\ awaiting'[a] = 1]_vars

\* C13 witness: one identifier's job failed in the conversion and another
\* identifier's job, started afterwards, succeeded.
OtherJobCompletesAfterFailure ==
    \E a \in Ids, b \in Ids :
        /\ a # b
        /\ Phase(a) = "error"
        /\ conversion_statuses[a].completed_at # {}
        /\ Phase(b) = "success"
        /\ tpc[b] = "done"
        /\ conversion_statuses[b].started_at
               \in conversion_statuses[a].completed_at
        /\ md[b] = "full"

FetchFailed(i) == fetchResult[i] \in FetchOutcomes \ {"ok"}

ExtractFailed(i) ==
    extractResult[i] \in {"extract_error", "open_error", "write_error"}

\* C18 as stated: once the fetch of an identifier has returned with a
\* failure, or its conversion thread has ended after a failure, the record is
\* in the error phase with completed_at and error set.
FailureEndsFailed ==
    \A i \in Ids :
        (FetchFailed(i) \/ (ExtractFailed(i) /\ tpc[i] = "done")) =>
            /\ Phase(i) = "error"
            /\ conversion_statuses[i].completed_at # {}
            /\ conversion_statuses[i].error # {}

\* C19 as stated: in every state a request can observe, a record has
\* completed_at set exactly when its phase is success or error, and error set
\* exactly when its phase is error.
TerminalFieldsMatchPhase ==
    \A i \in DOMAIN conversion_statuses :
        /\ conversion_statuses[i].completed_at # {}
               <=> conversion_statuses[i].status \in {"success", "error"}
        /\ conversion_statuses[i].error # {}
               <=> conversion_statuses[i].status = "error"

\* C20: a record in success or error keeps that phase in every step, be it a
\* status check, a full request or a step of the conversion thread.
TerminalPhasesAbsorbing ==
    [][\A i \in Ids :
          Phase(i) \in {"success", "error"} => Phase(i)' = Phase(i)]_vars

\* C20 witness: after the conversion thread had ended with the record in
\* error, a full request for the identifier was answered and the record is
\* still in error.
TerminalRecordRequestedAgain ==
    \E r \in resp :
        /\ ~r.check_status
        /\ ~r.starter
        /\ r.sawRecord = "error"
        /\ r.sawThread = "done"
        /\ Phase(r.paper_id) = "error"
        /\ conversion_statuses[r.paper_id].error # {}

\* C14 as stated: handle_read_paper answers "success" exactly when a final
\* artifact of the identifier is in storage, and "error" otherwise.
ReadSucceedsIffStored ==
    \A r \in read_result :
        /\ r.payload.status \in {"success", "error"}
        /\ r.payload.status = "success" <=> r.sawMd # "none"

\* C14 amended: handle_read_paper answers "success", with the paper_id and
\* the stored content, exactly when a final artifact of the identifier is in
\* storage and reading it does not raise; it answers "error" when none is in
\* storage or when the read raises; and it changes neither the tracker nor an
\* artifact and starts no download.
ReadSucceedsIffStoredAndReadable ==
    /\ [](\A r \in read_result :
             /\ r.payload.status \in {"success", "error"}
             /\ r.payload.status = "success" <=> (r.sawMd # "none" /\ r.read_ok)
             /\ r.payload.status = "success" =>
                    /\ r.payload.paper_id = {r.requested}
                    /\ r.payload.content = {r.sawMd}
             /\ r.payload.status = "error" =>
                    /\ r.payload.paper_id = {}
                    /\ r.payload.content = {})
    /\ [][\A i \in Ids :
             ReadPaper(i) => UNCHANGED <<work, fetchResult, extractResult, resp>>]_vars

\* C14 witness: a read was answered "success" with the content of a final
\* artifact that has no record in the tracker, and nothing was started.
ReadOfCachedArtifact ==
    \E r \in read_result :
        /\ r.payload.status = "success"
        /\ r.payload.content = {"full"}
        /\ r.requested \notin DOMAIN conversion_statuses
        /\ fetchCalls[r.requested] = 0
        /\ \E j \in Ids : j # r.requested /\ md[j] = "none"

RECURSIVE RawCount(_)
\* The number of raw results of pages 1..n.
RawCount(n) == IF n = 0 THEN 0 ELSE RawCount(n - 1) + Len(PageOf(n))

\* One of the two stop conditions holds after n requests: the raw results
\* have reached max_results, or the n-th page came back empty.
StopAfter(n) ==
    \/ RawCount(n) >= max_results
    \/ n >= 1 /\ PageOf(n) = <<>>

Answered(status) == \E t \in search_result : t.status = status

Precedes(a, b) == a[1] < b[1] \/ (a[1] = b[1] /\ a[2] < b[2])

\* C16: in every successful answer total_results is the number of papers,
\* the papers are raw results of the fetched pages in the order of the API,
\* and they are at most min(max_results, MAX_RESULTS).
SearchAnswerBounded ==
    \A t \in search_result :
        t.status = "ok" =>
            /\ t.total_results = Len(t.papers)
            /\ Len(t.papers) <= Min(arguments.max_results, MAX_RESULTS)
            /\ \A a \in DOMAIN t.papers :
                  /\ \E k \in DOMAIN all_results : all_results[k].id = t.papers[a].id
                  /\ \A b \in DOMAIN t.papers :
                        a < b => Precedes(t.papers[a].id, t.papers[b].id)

\* C16 witness: the fetched pages held more raw results than max_results and
\* the answer holds exactly max_results papers.
RawResultsCut ==
    \E t \in search_result :
        /\ t.status = "ok"
        /\ Len(all_results) > max_results
        /\ t.total_results = max_results
        /\ max_results = MAX_RESULTS
        /\ arguments.max_results > MAX_RESULTS

PassesFilters(paper_data) ==
    /\ CategoryMatches(paper_data, arguments.categories)
    /\ is_within_date_range(paper_data.date, ParseDate(arguments.date_from),
                            ParseDate(arguments.date_to))

\* The pages an exhaustive pagination would see: those before the first
\* empty one.
ListedPages == {p \in 1..MaxPages : \A q \in 1..p : PageOf(q) # <<>>}

PassingUpstream ==
    Cardinality({<<p, k>> \in (1..MaxPages) \X (1..MaxPageSize) :
                    /\ p \in ListedPages
                    /\ k \in DOMAIN PageOf(p)
                    /\ PassesFilters(PageOf(p)[k])})

\* C17 as stated: a successful answer holds max_results papers whenever the
\* pages of the API hold that many papers passing the filters, and every
\* passing paper when they hold fewer.
FiltersSatisfyMaxResults ==
    \A t \in search_result :
        (t.status = "ok" /\ ~upstream.endless) =>
            /\ PassingUpstream >= max_results => Len(t.papers) = max_results
            /\ PassingUpstream < max_results => Len(t.papers) = PassingUpstream

-----------------------------------------------------------------------------
(* The tracker and the disk *)

\* C21: a record appears only in a step that starts from a state without a
\* record and without a final artifact for the identifier, and it appears in
\* the downloading phase with started_at = now; a record that exists is still
\* there after every step, is the same object (none was constructed in its
\* place) and keeps its started_at.
RecordCreatedOnceAndKept ==
    [][\A i \in Ids :
          /\ (i \notin DOMAIN conversion_statuses /\ i \in DOMAIN conversion_statuses') =>
                 /\ md[i] = "none"
                 /\ conversion_statuses'[i] = ConversionStatus(i, "downloading", now)
          /\ i \in DOMAIN conversion_statuses =>
                 /\ i \in DOMAIN conversion_statuses'
                 /\ created'[i] = created[i]
                 /\ conversion_statuses'[i].paper_id = conversion_statuses[i].paper_id
                 /\ conversion_statuses'[i].started_at =
                        conversion_statuses[i].started_at]_vars

\* C21 witness: a record created earlier has run to success and kept its
\* started_at while a later request created the record of another identifier.
RecordKeptWhileOtherCreated ==
    \E i \in DOMAIN conversion_statuses, j \in DOMAIN conversion_statuses :
        /\ i # j
        /\ conversion_statuses[i].status = "success"
        /\ conversion_statuses[i].started_at < conversion_statuses[j].started_at
        /\ conversion_statuses[j].status = "downloading"
        /\ created[i] = 1
        /\ created[j] = 1

FailedJobLeavesNoArtifact ==
    \A i \in DOMAIN conversion_statuses :
        conversion_statuses[i].status = "error" => md[i] = "none"

\* What a status check and a full request answer in the current state.
StatusOnlyAnswer(i) == CheckStatusPayload(i).status

FullRequestAnswersSuccess(i) == AlreadyConverted(i)

\* C24 as stated: in no state where a full request answers success because
\* the final artifact exists does a status check answer downloading,
\* converting or error.
StatusAndFullRequestAgree ==
    \A i \in Ids :
        FullRequestAnswersSuccess(i) =>
            StatusOnlyAnswer(i) \notin {"downloading", "converting", "error"}

\* C23: once the tracker has been cleared by a restart, every request, status
\* check or full, for an identifier whose final artifact was on disk at the
\* restart is answered success with its resource_uri; and a full request for
\* an identifier that has no final artifact and no record since the restart
\* creates a record in downloading and issues the fetch, whether or not the
\* record the restart dropped was in error.
TrackerIsCacheOverDisk ==
    /\ [](cleared.happened =>
             \A r \in resp :
                 r.paper_id \in cleared.stored =>
                     /\ r.payload.status = "success"
                     /\ r.payload.resource_uri = {get_paper_path(r.paper_id, ".md")})
    /\ [][\A i \in Ids :
             (/\ cleared.happened
              /\ ~exists(get_paper_path(i, ".md"))
              /\ i \notin DOMAIN conversion_statuses
              /\ Download(i)) =>
                 /\ i \in DOMAIN conversion_statuses'
                 /\ conversion_statuses'[i] = ConversionStatus(i, "downloading", now)
                 /\ created'[i] = 1
                 /\ fetchCalls'[i] = 1
                 /\ fetchResult'[i] = "pending"]_vars

\* C23 witness: after a restart that dropped a record in error, a status
\* check of a stored identifier was answered success and the identifier of
\* the dropped record has a fresh job in downloading.
FreshJobAfterRestart ==
    \E r \in resp, i \in cleared.failed :
        /\ cleared.happened
        /\ r.check_status
        /\ r.paper_id \in cleared.stored
        /\ r.payload.status = "success"
        /\ i # r.paper_id
        /\ md[i] = "none"
        /\ Phase(i) = "downloading"
        /\ created[i] = 1
        /\ awaiting[i] = 1

====
